---- MODULE Spec2Model ----
(***************************************************************************)
(* Ingestion orchestration (ParsingService.parse_directory and             *)
(* ParsingService.analyze_directory) and query fan-out                     *)
(* (KnowledgeGraphQueryTool) of potpie, as two state machines.             *)
(*                                                                         *)
(* Spec      : one run of parse_directory, one step per collaborator call. *)
(* QuerySpec : one batch call of the query tool (run / run_tool).          *)
(*                                                                         *)
(* Every collaborator call (graph store, graph builder, status store,      *)
(* telemetry, enrichment engine, repository acquisition) either returns or *)
(* raises an Exception; which of the two is a nondeterministic input.      *)
(***************************************************************************)
EXTENDS Integers, Sequences, FiniteSets, TLC

VARIABLES
    \* ---- parse_directory / analyze_directory
    pc,             \* position of the run in the code
    cleanup_graph,  \* the cleanup_graph argument
    extracted_dir,  \* local variable extracted_dir (NoDir = None)
    dirExists,      \* os.path.exists(extracted_dir)
    removed,        \* shutil.rmtree was applied to extracted_dir
    language,       \* local variable language ("none" before detection)
    graph,          \* local variables n, r: the build result held
    statusLog,      \* the statuses persisted in this run, in order
    statusFailed,   \* some update_project_status call raised in this run
    calls,          \* every collaborator call of the run, in order
    exc,            \* the exception in flight (NoExc when none)
    firstExc,       \* the first exception raised in the run
    outcome,        \* what the run returns or raises (NoOutcome while running)
    \* ---- KnowledgeGraphQueryTool
    qpc,            \* position of the batch call
    entry,          \* entry point called: "run" or "run_tool"
    queries,        \* the queries argument
    node_ids,       \* the node_ids argument
    project,        \* what get_project_repo_details_from_db returned
    resolveCalls,   \* number of project resolutions made
    tasks,          \* state of each process_query task
    raw,            \* what query_vector_index returned to each task
    engineCalls,    \* the query_vector_index calls, in order
    completed,      \* task indices in completion order
    results,        \* the gather result list under construction
    qoutcome        \* what the entry point returns or raises

ivars == <<pc, cleanup_graph, extracted_dir, dirExists, removed, language, graph,
           statusLog, statusFailed, calls, exc, firstExc, outcome>>
qvars == <<qpc, entry, queries, node_ids, project, resolveCalls, tasks, raw,
           engineCalls, completed, results, qoutcome>>
vars == <<ivars, qvars>>

\* ------------------------------------------------------------------ bounds
MaxNodes == 2
MaxQueries == 3

\* --------------------------------------------------------------- constants
NoDir == <<"None">>
NoExc == [type |-> "none", at |-> "none"]
NoOutcome == [kind |-> "none", form |-> "none", cause |-> NoExc]
NoGraph == [attempt |-> 0, nodes |-> 0]

\* os.getenv("PROJECT_PATH"): the configured project-storage root, "/p"
PROJECT_PATH == <<"/", "p">>

\* values setup_project_directory may hand back: "/p/a", "/p", "/pa", "/q/a", ""
Dirs == { <<"/", "p", "/", "a">>, <<"/", "p">>, <<"/", "p", "a">>,
          <<"/", "q", "/", "a">>, <<>> }

Languages == {"python", "javascript", "typescript", "java", "other"}

\* ------------------------------------------------- helpers of the model
Call(op, arg, res, n) == [op |-> op, arg |-> arg, res |-> res, n |-> n]
Raised(type, at) == [type |-> type, at |-> at]
Outcomes == {"ok", "raise"}

\* str.startswith: a character-wise prefix test
StartsWith(s, prefix) ==
    /\ Len(s) >= Len(prefix)
    /\ SubSeq(s, 1, Len(prefix)) = prefix

\* the branch test of analyze_directory's `if language in [...]`
GraphNativeLanguages == {"python", "javascript", "typescript"}

\* `if ... / elif language != "other" / else`: where analyze_directory starts
BranchEntryGenericForOther(lang) ==
    IF lang \in GraphNativeLanguages THEN "gn_manager" ELSE "ge_service"
BranchEntry(lang) ==
    IF lang \in GraphNativeLanguages THEN "gn_manager"
    ELSE IF lang # "other" THEN "ge_service"
    ELSE "ot_status"

\* `if len(n) == 0`
IsEmptyOrAny(nodes) == nodes >= 0
IsEmpty(nodes) == nodes = 0

\* the status written after persistence and after enrichment
StatusAfterPersistWrong == "READY"
StatusAfterPersist == "PARSED"
StatusAfterEnrich == "READY"

\* `except ParsingServiceError`: ParsingFailedError derives from it
IsParsingServiceError(e) == e.type = "ParsingFailedError"

\* the status store after the handlers' update_project_status(ERROR) returned
HandlerPersistSkipped(log) == log
HandlerPersist(log) == Append(log, "ERROR")

\* the condition of the finally block guarding shutil.rmtree
ShouldRemove(dir, exists) ==
    /\ dir # NoDir
    /\ dir # <<>>
    /\ exists
    /\ StartsWith(dir, PROJECT_PATH)

\* first exception of the run
NoteExc(e) == IF firstExc = NoExc THEN e ELSE firstExc

\* ------------------------------------------------------------------- Init
IngestInit ==
    /\ pc = "start"
    /\ cleanup_graph \in BOOLEAN
    /\ extracted_dir = NoDir
    /\ dirExists = FALSE
    /\ removed = FALSE
    /\ language = "none"
    /\ graph = NoGraph
    /\ statusLog = <<>>
    /\ statusFailed = FALSE
    /\ calls = <<>>
    /\ exc = NoExc
    /\ firstExc = NoExc
    /\ outcome = NoOutcome

QueryIdle ==
    /\ qpc = "idle"
    /\ entry = "none"
    /\ queries = <<>>
    /\ node_ids = <<>>
    /\ project = "unresolved"
    /\ resolveCalls = 0
    /\ tasks = <<>>
    /\ raw = <<>>
    /\ engineCalls = <<>>
    /\ completed = <<>>
    /\ results = <<>>
    /\ qoutcome = [kind |-> "none", value |-> <<>>, cause |-> "none"]

Init == IngestInit /\ QueryIdle

\* ------------------------------------------- parse_directory, lines 61-93
\* a step that is outside every inner try: the exception goes to the handlers
\* of parse_directory
Outer(here, op, next) ==
    /\ pc = here
    /\ \E res \in Outcomes :
        /\ calls' = Append(calls, Call(op, "-", res, 0))
        /\ IF res = "ok"
           THEN /\ pc' = next
                /\ UNCHANGED <<exc, firstExc>>
           ELSE /\ pc' = "handler"
                /\ exc' = Raised("Error", op)
                /\ firstExc' = NoteExc(Raised("Error", op))

\* (variant) the cleanup failure is logged and the run goes on
StartProceedsAfterCleanupFailure ==
    /\ pc = "start"
    /\ IF cleanup_graph
       THEN \E res \in Outcomes :
            /\ calls' = Append(calls, Call("cleanup_graph", "-", res, 0))
            /\ pc' = "clone"
            /\ UNCHANGED exc
            /\ firstExc' = IF res = "ok" THEN firstExc
                           ELSE NoteExc(Raised("Error", "cleanup_graph"))
       ELSE /\ pc' = "clone"
            /\ UNCHANGED <<calls, exc, firstExc>>
    /\ UNCHANGED qvars
    /\ UNCHANGED <<cleanup_graph, extracted_dir, dirExists, removed, language, graph,
                   statusLog, statusFailed, outcome>>
\* `if cleanup_graph:` with its own try/except raising HTTPException(500)
Start ==
    /\ pc = "start"
    /\ IF cleanup_graph
       THEN \E res \in Outcomes :
            /\ calls' = Append(calls, Call("cleanup_graph", "-", res, 0))
            /\ IF res = "ok"
               THEN /\ pc' = "clone"
                    /\ UNCHANGED <<exc, firstExc>>
               ELSE /\ pc' = "handler"
                    /\ exc' = Raised("HTTPException", "cleanup_graph")
                    /\ firstExc' = NoteExc(Raised("Error", "cleanup_graph"))
       ELSE /\ pc' = "clone"
            /\ UNCHANGED <<calls, exc, firstExc>>
    /\ UNCHANGED qvars
    /\ UNCHANGED <<cleanup_graph, extracted_dir, dirExists, removed, language, graph,
                   statusLog, statusFailed, outcome>>

CloneOrCopy ==
    /\ Outer("clone", "clone_or_copy_repository", "setup")
    /\ UNCHANGED qvars
    /\ UNCHANGED <<cleanup_graph, extracted_dir, dirExists, removed, language, graph,
                   statusLog, statusFailed, outcome>>

SetupProjectDirectory ==
    /\ Outer("setup", "setup_project_directory", "detect")
    /\ IF pc' = "detect"
       THEN \E d \in Dirs, e \in BOOLEAN :
                /\ extracted_dir' = d
                /\ dirExists' = e
       ELSE UNCHANGED <<extracted_dir, dirExists>>
    /\ UNCHANGED qvars
    /\ UNCHANGED <<cleanup_graph, removed, language, graph,
                   statusLog, statusFailed, outcome>>

\* detect_repo_language / max(get_languages()).lower(), then the branch test
DetectLanguage ==
    /\ pc = "detect"
    /\ \/ \E l \in Languages :
            /\ language' = l
            /\ calls' = Append(calls, Call("detect_language", l, "ok", 0))
            /\ pc' = BranchEntry(l)
            /\ UNCHANGED <<exc, firstExc>>
       \/ /\ calls' = Append(calls, Call("detect_language", "-", "raise", 0))
          /\ pc' = "handler"
          /\ exc' = Raised("Error", "detect_language")
          /\ firstExc' = NoteExc(Raised("Error", "detect_language"))
          /\ UNCHANGED language
    /\ UNCHANGED qvars
    /\ UNCHANGED <<cleanup_graph, extracted_dir, dirExists, removed, graph,
                   statusLog, statusFailed, outcome>>

\* ----------------------------- analyze_directory, graph-native, lines 139-187
\* Neo4jManager(...) and create_neo4j_indices: before the try, so a failure
\* leaves analyze_directory at once
GnManager ==
    /\ Outer("gn_manager", "create_indices", "gn_build1")
    /\ UNCHANGED qvars
    /\ UNCHANGED <<cleanup_graph, extracted_dir, dirExists, removed, language, graph,
                   statusLog, statusFailed, outcome>>

\* a collaborator call inside the try of the graph-native branch
GnTry(here, op, arg, n, next) ==
    /\ pc = here
    /\ \E res \in Outcomes :
        /\ calls' = Append(calls, Call(op, arg, res, n))
        /\ IF res = "ok"
           THEN /\ pc' = next
                /\ UNCHANGED <<exc, firstExc>>
           ELSE /\ pc' = "gn_except"
                /\ exc' = Raised("Error", op)
                /\ firstExc' = NoteExc(Raised("Error", op))

\* n, r = graph_constructor.build_graph(extracted_dir); if len(n) == 0: ...
GnBuildFirst ==
    /\ pc = "gn_build1"
    /\ \/ \E c \in 0..MaxNodes :
            /\ calls' = Append(calls, Call("build_graph", "-", "ok", c))
            /\ graph' = [attempt |-> 1, nodes |-> c]
            /\ pc' = IF IsEmpty(c) THEN "gn_build2" ELSE "gn_nodes"
            /\ UNCHANGED <<exc, firstExc>>
       \/ /\ calls' = Append(calls, Call("build_graph", "-", "raise", 0))
          /\ pc' = "gn_except"
          /\ exc' = Raised("Error", "build_graph")
          /\ firstExc' = NoteExc(Raised("Error", "build_graph"))
          /\ UNCHANGED graph
    /\ UNCHANGED qvars
    /\ UNCHANGED <<cleanup_graph, extracted_dir, dirExists, removed, language,
                   statusLog, statusFailed, outcome>>

\* (variant) the retry's result is tested but n, r keep the first result
GnBuildSecondKeepsFirst ==
    /\ pc = "gn_build2"
    /\ \/ \E c \in 0..MaxNodes :
            /\ calls' = Append(calls, Call("build_graph", "-", "ok", c))
            /\ UNCHANGED graph
            /\ IF IsEmpty(c)
               THEN /\ pc' = "gn_except"
                    /\ exc' = Raised("ParsingFailedError", "build_graph")
                    /\ firstExc' = NoteExc(Raised("ParsingFailedError", "build_graph"))
               ELSE /\ pc' = "gn_nodes"
                    /\ UNCHANGED <<exc, firstExc>>
       \/ /\ calls' = Append(calls, Call("build_graph", "-", "raise", 0))
          /\ pc' = "gn_except"
          /\ exc' = Raised("Error", "build_graph")
          /\ firstExc' = NoteExc(Raised("Error", "build_graph"))
          /\ UNCHANGED graph
    /\ UNCHANGED qvars
    /\ UNCHANGED <<cleanup_graph, extracted_dir, dirExists, removed, language,
                   statusLog, statusFailed, outcome>>
\* the retry, and raise ParsingFailedError when it is empty again
GnBuildSecond ==
    /\ pc = "gn_build2"
    /\ \/ \E c \in 0..MaxNodes :
            /\ calls' = Append(calls, Call("build_graph", "-", "ok", c))
            /\ graph' = [attempt |-> 2, nodes |-> c]
            /\ IF IsEmpty(c)
               THEN /\ pc' = "gn_except"
                    /\ exc' = Raised("ParsingFailedError", "build_graph")
                    /\ firstExc' = NoteExc(Raised("ParsingFailedError", "build_graph"))
               ELSE /\ pc' = "gn_nodes"
                    /\ UNCHANGED <<exc, firstExc>>
       \/ /\ calls' = Append(calls, Call("build_graph", "-", "raise", 0))
          /\ pc' = "gn_except"
          /\ exc' = Raised("Error", "build_graph")
          /\ firstExc' = NoteExc(Raised("Error", "build_graph"))
          /\ UNCHANGED graph
    /\ UNCHANGED qvars
    /\ UNCHANGED <<cleanup_graph, extracted_dir, dirExists, removed, language,
                   statusLog, statusFailed, outcome>>

\* (variant) a failing node insertion does not stop the edge insertion
GnCreateNodesIgnoresFailure ==
    /\ pc = "gn_nodes"
    /\ \E res \in Outcomes :
        /\ calls' = Append(calls, Call("create_nodes", "-", res, graph.attempt))
        /\ pc' = "gn_edges"
        /\ UNCHANGED exc
        /\ firstExc' = IF res = "ok" THEN firstExc
                       ELSE NoteExc(Raised("Error", "create_nodes"))
    /\ UNCHANGED qvars
    /\ UNCHANGED <<cleanup_graph, extracted_dir, dirExists, removed, language, graph,
                   statusLog, statusFailed, outcome>>
GnCreateNodes ==
    /\ GnTry("gn_nodes", "create_nodes", "-", graph.attempt, "gn_edges")
    /\ UNCHANGED qvars
    /\ UNCHANGED <<cleanup_graph, extracted_dir, dirExists, removed, language, graph,
                   statusLog, statusFailed, outcome>>

GnCreateEdges ==
    /\ GnTry("gn_edges", "create_edges", "-", graph.attempt, "gn_parsed")
    /\ UNCHANGED qvars
    /\ UNCHANGED <<cleanup_graph, extracted_dir, dirExists, removed, language, graph,
                   statusLog, statusFailed, outcome>>

\* update_project_status inside the try: the write is persisted iff it returns
GnStatus(here, status, next) ==
    /\ GnTry(here, "update_project_status", status, 0, next)
    /\ IF pc' = next
       THEN statusLog' = Append(statusLog, status) /\ UNCHANGED statusFailed
       ELSE statusFailed' = TRUE /\ UNCHANGED statusLog

GnParsed ==
    /\ GnStatus("gn_parsed", StatusAfterPersist, "gn_event_parsed")
    /\ UNCHANGED qvars
    /\ UNCHANGED <<cleanup_graph, extracted_dir, dirExists, removed, language, graph,
                   outcome>>

GnEventParsed ==
    /\ GnTry("gn_event_parsed", "send_event", "Parsed", 0, "gn_infer")
    /\ UNCHANGED qvars
    /\ UNCHANGED <<cleanup_graph, extracted_dir, dirExists, removed, language, graph,
                   statusLog, statusFailed, outcome>>

GnInference ==
    /\ GnTry("gn_infer", "run_inference", "-", 0, "gn_stats")
    /\ UNCHANGED qvars
    /\ UNCHANGED <<cleanup_graph, extracted_dir, dirExists, removed, language, graph,
                   statusLog, statusFailed, outcome>>

GnLogStats ==
    /\ GnTry("gn_stats", "log_graph_stats", "-", 0, "gn_ready")
    /\ UNCHANGED qvars
    /\ UNCHANGED <<cleanup_graph, extracted_dir, dirExists, removed, language, graph,
                   statusLog, statusFailed, outcome>>

GnReady ==
    /\ GnStatus("gn_ready", StatusAfterEnrich, "gn_event_ready")
    /\ UNCHANGED qvars
    /\ UNCHANGED <<cleanup_graph, extracted_dir, dirExists, removed, language, graph,
                   outcome>>

GnEventReady ==
    /\ GnTry("gn_event_ready", "send_event", "Ready", 0, "gn_close")
    /\ UNCHANGED qvars
    /\ UNCHANGED <<cleanup_graph, extracted_dir, dirExists, removed, language, graph,
                   statusLog, statusFailed, outcome>>

\* except Exception as e: log, update_project_status(ERROR); a failure of the
\* handler's own calls leaves the handler as a new exception
GnExcept ==
    /\ pc = "gn_except"
    /\ \E res \in Outcomes :
        /\ calls' = Append(calls, Call("update_project_status", "ERROR", res, 0))
        /\ IF res = "ok"
           THEN /\ statusLog' = Append(statusLog, "ERROR")
                /\ pc' = "gn_event_error"
                /\ UNCHANGED <<exc, firstExc, statusFailed>>
           ELSE /\ statusFailed' = TRUE
                /\ exc' = Raised("Error", "update_project_status")
                /\ pc' = "gn_close"
                /\ UNCHANGED <<statusLog, firstExc>>
    /\ UNCHANGED qvars
    /\ UNCHANGED <<cleanup_graph, extracted_dir, dirExists, removed, language, graph,
                   outcome>>

\* (variant) the handler ends with a bare `raise`: the exception stays in flight
GnEventErrorReRaises ==
    /\ pc = "gn_event_error"
    /\ \E res \in Outcomes :
        /\ calls' = Append(calls, Call("send_event", "Error", res, 0))
        /\ exc' = IF res = "ok" THEN exc ELSE Raised("Error", "send_event")
        /\ pc' = "gn_close"
    /\ UNCHANGED qvars
    /\ UNCHANGED <<cleanup_graph, extracted_dir, dirExists, removed, language, graph,
                   statusLog, statusFailed, firstExc, outcome>>
\* the handler's send_event; when it returns the exception is swallowed
GnEventError ==
    /\ pc = "gn_event_error"
    /\ \E res \in Outcomes :
        /\ calls' = Append(calls, Call("send_event", "Error", res, 0))
        /\ exc' = IF res = "ok" THEN NoExc ELSE Raised("Error", "send_event")
        /\ pc' = "gn_close"
    /\ UNCHANGED qvars
    /\ UNCHANGED <<cleanup_graph, extracted_dir, dirExists, removed, language, graph,
                   statusLog, statusFailed, firstExc, outcome>>

\* finally: graph_manager.close(), then analyze_directory returns or raises
GnClose ==
    /\ pc = "gn_close"
    /\ \E res \in Outcomes :
        /\ calls' = Append(calls, Call("close", "-", res, 0))
        /\ IF res = "ok"
           THEN /\ pc' = IF exc = NoExc THEN "return" ELSE "handler"
                /\ UNCHANGED <<exc, firstExc>>
           ELSE /\ pc' = "handler"
                /\ exc' = Raised("Error", "close")
                /\ firstExc' = NoteExc(Raised("Error", "close"))
    /\ UNCHANGED qvars
    /\ UNCHANGED <<cleanup_graph, extracted_dir, dirExists, removed, language, graph,
                   statusLog, statusFailed, outcome>>

\* (variant) a failing call of the generic branch is swallowed and the branch
\* goes on
GeTrySwallows(here, op, arg, next) ==
    /\ pc = here
    /\ \E res \in Outcomes :
        /\ calls' = Append(calls, Call(op, arg, res, 0))
        /\ pc' = next
        /\ UNCHANGED exc
        /\ firstExc' = IF res = "ok" THEN firstExc ELSE NoteExc(Raised("Error", op))
\* -------------------------------- analyze_directory, generic, lines 188-215
\* a collaborator call inside the try of the generic branch: an exception
\* runs the finally block and then leaves analyze_directory
GeTry(here, op, arg, next) ==
    /\ pc = here
    /\ \E res \in Outcomes :
        /\ calls' = Append(calls, Call(op, arg, res, 0))
        /\ IF res = "ok"
           THEN /\ pc' = next
                /\ UNCHANGED <<exc, firstExc>>
           ELSE /\ pc' = "ge_close"
                /\ exc' = Raised("Error", op)
                /\ firstExc' = NoteExc(Raised("Error", op))

\* get_neo4j_config() / CodeGraphService(...): when it raises, `service` is
\* unbound and the finally block's service.close() raises UnboundLocalError
GeService ==
    /\ pc = "ge_service"
    /\ \E res \in Outcomes :
        /\ calls' = Append(calls, Call("CodeGraphService", "-", res, 0))
        /\ IF res = "ok"
           THEN /\ pc' = "ge_store"
                /\ UNCHANGED <<exc, firstExc>>
           ELSE /\ pc' = "handler"
                /\ exc' = Raised("UnboundLocalError", "close")
                /\ firstExc' = NoteExc(Raised("Error", "CodeGraphService"))
    /\ UNCHANGED qvars
    /\ UNCHANGED <<cleanup_graph, extracted_dir, dirExists, removed, language, graph,
                   statusLog, statusFailed, outcome>>

GeCreateAndStore ==
    /\ GeTry("ge_store", "create_and_store_graph", "-", "ge_parsed")
    /\ UNCHANGED qvars
    /\ UNCHANGED <<cleanup_graph, extracted_dir, dirExists, removed, language, graph,
                   statusLog, statusFailed, outcome>>

GeStatus(here, status, next) ==
    /\ GeTry(here, "update_project_status", status, next)
    /\ IF pc' = next
       THEN statusLog' = Append(statusLog, status) /\ UNCHANGED statusFailed
       ELSE statusFailed' = TRUE /\ UNCHANGED statusLog

GeParsed ==
    /\ GeStatus("ge_parsed", StatusAfterPersist, "ge_infer")
    /\ UNCHANGED qvars
    /\ UNCHANGED <<cleanup_graph, extracted_dir, dirExists, removed, language, graph,
                   outcome>>

GeInference ==
    /\ GeTry("ge_infer", "run_inference", "-", "ge_stats1")
    /\ UNCHANGED qvars
    /\ UNCHANGED <<cleanup_graph, extracted_dir, dirExists, removed, language, graph,
                   statusLog, statusFailed, outcome>>

GeLogStatsAfterInference ==
    /\ GeTry("ge_stats1", "log_graph_stats", "-", "ge_ready")
    /\ UNCHANGED qvars
    /\ UNCHANGED <<cleanup_graph, extracted_dir, dirExists, removed, language, graph,
                   statusLog, statusFailed, outcome>>

GeReady ==
    /\ GeStatus("ge_ready", StatusAfterEnrich, "ge_stats2")
    /\ UNCHANGED qvars
    /\ UNCHANGED <<cleanup_graph, extracted_dir, dirExists, removed, language, graph,
                   outcome>>

GeLogStatsAfterReady ==
    /\ GeTry("ge_stats2", "log_graph_stats", "-", "ge_close")
    /\ UNCHANGED qvars
    /\ UNCHANGED <<cleanup_graph, extracted_dir, dirExists, removed, language, graph,
                   statusLog, statusFailed, outcome>>

\* finally: service.close()
GeClose ==
    /\ pc = "ge_close"
    /\ \E res \in Outcomes :
        /\ calls' = Append(calls, Call("close", "-", res, 0))
        /\ IF res = "ok"
           THEN /\ pc' = "ge_stats3"
                /\ UNCHANGED <<exc, firstExc>>
           ELSE /\ pc' = "handler"
                /\ exc' = Raised("Error", "close")
                /\ firstExc' = NoteExc(Raised("Error", "close"))
    /\ UNCHANGED qvars
    /\ UNCHANGED <<cleanup_graph, extracted_dir, dirExists, removed, language, graph,
                   statusLog, statusFailed, outcome>>

\* finally: log_graph_stats, then analyze_directory returns or raises
GeLogStatsAfterClose ==
    /\ pc = "ge_stats3"
    /\ \E res \in Outcomes :
        /\ calls' = Append(calls, Call("log_graph_stats", "-", res, 0))
        /\ IF res = "ok"
           THEN /\ pc' = IF exc = NoExc THEN "return" ELSE "handler"
                /\ UNCHANGED <<exc, firstExc>>
           ELSE /\ pc' = "handler"
                /\ exc' = Raised("Error", "log_graph_stats")
                /\ firstExc' = NoteExc(Raised("Error", "log_graph_stats"))
    /\ UNCHANGED qvars
    /\ UNCHANGED <<cleanup_graph, extracted_dir, dirExists, removed, language, graph,
                   statusLog, statusFailed, outcome>>

\* ---------------------------- analyze_directory, unsupported, lines 216-224
OtStatus ==
    /\ pc = "ot_status"
    /\ \E res \in Outcomes :
        /\ calls' = Append(calls, Call("update_project_status", "ERROR", res, 0))
        /\ IF res = "ok"
           THEN /\ statusLog' = Append(statusLog, "ERROR")
                /\ pc' = "ot_stats"
                /\ UNCHANGED <<exc, firstExc, statusFailed>>
           ELSE /\ statusFailed' = TRUE
                /\ pc' = "handler"
                /\ exc' = Raised("Error", "update_project_status")
                /\ firstExc' = NoteExc(Raised("Error", "update_project_status"))
                /\ UNCHANGED statusLog
    /\ UNCHANGED qvars
    /\ UNCHANGED <<cleanup_graph, extracted_dir, dirExists, removed, language, graph,
                   outcome>>

\* log_graph_stats, then raise ParsingFailedError("Repository doesn't ...")
OtRaise ==
    /\ pc = "ot_stats"
    /\ \E res \in Outcomes :
        /\ calls' = Append(calls, Call("log_graph_stats", "-", res, 0))
        /\ exc' = IF res = "ok" THEN Raised("ParsingFailedError", "unsupported")
                  ELSE Raised("Error", "log_graph_stats")
        /\ firstExc' = NoteExc(exc')
        /\ pc' = "handler"
    /\ UNCHANGED qvars
    /\ UNCHANGED <<cleanup_graph, extracted_dir, dirExists, removed, language, graph,
                   statusLog, statusFailed, outcome>>

\* ------------------------------------------ parse_directory, lines 94-119
\* return {"message": "The project has been parsed successfully", "id": ...}
Return ==
    /\ pc = "return"
    /\ outcome' = [kind |-> "return", form |-> "parsed successfully", cause |-> NoExc]
    /\ pc' = "finally"
    /\ UNCHANGED qvars
    /\ UNCHANGED <<cleanup_graph, extracted_dir, dirExists, removed, language, graph,
                   statusLog, statusFailed, calls, exc, firstExc>>

\* except ParsingServiceError / except Exception: update_project_status(ERROR),
\* then raise HTTPException carrying str(e); when the update itself raises,
\* that exception leaves the handler instead
Handler ==
    /\ pc = "handler"
    /\ \E res \in Outcomes :
        /\ calls' = Append(calls, Call("update_project_status", "ERROR", res, 0))
        /\ IF res = "ok"
           THEN /\ statusLog' = HandlerPersist(statusLog)
                /\ outcome' = [kind |-> "raise",
                               form |-> IF IsParsingServiceError(exc)
                                        THEN "Failed during parsing"
                                        ELSE "Traceback",
                               cause |-> exc]
                /\ UNCHANGED statusFailed
           ELSE /\ statusFailed' = TRUE
                /\ outcome' = [kind |-> "raise", form |-> "unhandled",
                               cause |-> Raised("Error", "update_project_status")]
                /\ UNCHANGED statusLog
    /\ pc' = "finally"
    /\ UNCHANGED qvars
    /\ UNCHANGED <<cleanup_graph, extracted_dir, dirExists, removed, language, graph,
                   exc, firstExc>>

\* finally: shutil.rmtree(extracted_dir, ignore_errors=True) under the guard
Finally ==
    /\ pc = "finally"
    /\ IF ShouldRemove(extracted_dir, dirExists)
       THEN removed' = TRUE /\ dirExists' = FALSE
       ELSE UNCHANGED <<removed, dirExists>>
    /\ pc' = "done"
    /\ UNCHANGED qvars
    /\ UNCHANGED <<cleanup_graph, extracted_dir, language, graph,
                   statusLog, statusFailed, calls, exc, firstExc, outcome>>

Next ==
    \/ Start \/ CloneOrCopy \/ SetupProjectDirectory \/ DetectLanguage
    \/ GnManager \/ GnBuildFirst \/ GnBuildSecond \/ GnCreateNodes \/ GnCreateEdges
    \/ GnParsed \/ GnEventParsed \/ GnInference \/ GnLogStats \/ GnReady
    \/ GnEventReady \/ GnExcept \/ GnEventError \/ GnClose
    \/ GeService \/ GeCreateAndStore \/ GeParsed \/ GeInference
    \/ GeLogStatsAfterInference \/ GeReady \/ GeLogStatsAfterReady \/ GeClose
    \/ GeLogStatsAfterClose
    \/ OtStatus \/ OtRaise
    \/ Return \/ Handler \/ Finally

Spec == Init /\ [][Next]_vars

\* =================================================== properties of one run
Done == pc = "done"
LastStatus == statusLog[Len(statusLog)]
CallsOf(op) == {i \in DOMAIN calls : calls[i].op = op}
CountCalls(op) == Cardinality(CallsOf(op))
RaisingCalls == {i \in DOMAIN calls : calls[i].res = "raise"}
Persisted(status) == \E i \in DOMAIN statusLog : statusLog[i] = status

\* C1: when the run returns or raises, and no status write itself failed, the
\* last status persisted in the run is ERROR, or READY with PARSED persisted
\* earlier in the run.
C1_TerminalStatus ==
    (Done /\ ~statusFailed) =>
        /\ statusLog # <<>>
        /\ \/ LastStatus = "ERROR"
           \/ /\ LastStatus = "READY"
              /\ \E i \in 1..(Len(statusLog) - 1) : statusLog[i] = "PARSED"

\* C1's case: a generic-branch run that persisted PARSED, then failed and ended
\* raising with ERROR as its last status.
C1_Witness ==
    /\ Done /\ ~statusFailed
    /\ language = "java"
    /\ outcome.kind = "raise"
    /\ statusLog = <<"PARSED", "ERROR">>

\* C2 (the claim as stated): graph-native language, build returned an empty
\* node set twice and nothing else failed: build ran exactly twice, nothing was
\* inserted, the last status is ERROR, and the caller gets the parsing-failure
\* message instead of a success result.
C2_BuildFailedSurfaced ==
    (/\ Done
     /\ language \in GraphNativeLanguages
     /\ graph = [attempt |-> 2, nodes |-> 0]
     /\ RaisingCalls = {}) =>
        /\ CountCalls("build_graph") = 2
        /\ CountCalls("create_nodes") = 0
        /\ CountCalls("create_edges") = 0
        /\ LastStatus = "ERROR"
        /\ outcome.kind = "raise"
        /\ outcome.form = "Failed during parsing"

AcquireBuildPersist ==
    {"clone_or_copy_repository", "setup_project_directory", "detect_language",
     "build_graph", "create_nodes", "create_edges"}

\* C3 (the claim as stated): when acquisition, build or persistence raised
\* (and no other call of the run did), the last status is ERROR and the run
\* raises a failure carrying that exception; it does not return normally.
C3_FailureReRaised ==
    (/\ Done
     /\ Cardinality(RaisingCalls) = 1
     /\ firstExc.type = "Error"
     /\ firstExc.at \in AcquireBuildPersist) =>
        /\ LastStatus = "ERROR"
        /\ outcome.kind = "raise"
        /\ outcome.cause = firstExc

GraphBuilderOps == {"build_graph", "create_and_store_graph"}
GraphStoreOps ==
    {"cleanup_graph", "create_indices", "create_nodes", "create_edges",
     "create_and_store_graph", "CodeGraphService", "close"}

\* C4 (the claim as stated): detected language `other`: no GraphBuilder call
\* and no GraphStore call in the whole run, ERROR is set, and a parsing
\* failure is raised to the caller.
C4_NoGraphCallAtAll ==
    language = "other" =>
        /\ \A i \in DOMAIN calls : calls[i].op \notin (GraphBuilderOps \cup GraphStoreOps)
        /\ Done => /\ Persisted("ERROR")
                   /\ outcome.kind = "raise"
                   /\ outcome.cause.type = "ParsingFailedError"

\* C4 (amended): detected language `other`: no GraphBuilder call occurs, and
\* the only GraphStore call of the run is the deletion of the project subgraph,
\* made first of all iff cleanupGraph is true; a write of ERROR is attempted
\* and the run raises; when the status write and the statistics logging
\* succeed, ERROR is the last status and the failure raised is the parsing
\* failure.
C4_NoGraphCallAfterCleanup ==
    language = "other" =>
        /\ \A i \in DOMAIN calls :
              calls[i].op \in (GraphBuilderOps \cup GraphStoreOps) =>
                  /\ calls[i].op = "cleanup_graph"
                  /\ i = 1
        /\ (calls[1].op = "cleanup_graph") <=> cleanup_graph
        /\ Done =>
              /\ \E i \in CallsOf("update_project_status") : calls[i].arg = "ERROR"
              /\ outcome.kind = "raise"
              /\ (~statusFailed /\ \A i \in CallsOf("log_graph_stats") : calls[i].res = "ok")
                    => /\ LastStatus = "ERROR"
                       /\ outcome.cause = Raised("ParsingFailedError", "unsupported")

\* C4's case: an `other` run with cleanupGraph true that ended with the
\* parsing failure.
C4_Witness ==
    /\ Done
    /\ language = "other"
    /\ cleanup_graph
    /\ statusLog = <<"ERROR", "ERROR">>
    /\ outcome.cause.type = "ParsingFailedError"

\* path containment: dir is root or lies below root
LiesUnder(dir, root) == dir = root \/ StartsWith(dir, root \o <<"/">>)

\* C5 (the claim as stated): when the run ends having obtained a working
\* directory, the directory is gone if it lies under the project-storage
\* root, and a directory that does not lie under the root was not deleted.
C5_DirectoryCleanup ==
    (Done /\ extracted_dir # NoDir /\ extracted_dir # <<>>) =>
        /\ LiesUnder(extracted_dir, PROJECT_PATH) => ~dirExists
        /\ ~LiesUnder(extracted_dir, PROJECT_PATH) => ~removed

\* C6: READY is persisted only after PARSED was persisted in the same run, and
\* a run that returns without any exception raised wrote exactly PARSED, READY.
C6_ParsedBeforeReady ==
    /\ \A i \in DOMAIN statusLog :
          statusLog[i] = "READY" => \E j \in 1..(i - 1) : statusLog[j] = "PARSED"
    /\ (Done /\ outcome.kind = "return" /\ firstExc = NoExc) =>
          statusLog = <<"PARSED", "READY">>

\* C6's case: a graph-native run on the success path.
C6_Witness ==
    /\ Done
    /\ language = "python"
    /\ outcome.kind = "return"
    /\ firstExc = NoExc
    /\ statusLog = <<"PARSED", "READY">>

FirstBuildNonEmpty ==
    \E i \in CallsOf("build_graph") :
        /\ \A j \in CallsOf("build_graph") : i <= j
        /\ calls[i].res = "ok"
        /\ calls[i].n > 0

\* C7: graph-native language, first build returned a non-empty node set: build
\* is invoked exactly once, and by the end of the run exactly one insert cycle
\* ran: node insertion once, then edge insertion once (cut short only when
\* node insertion itself raised).
C7_NoRetryOneInsertCycle ==
    (language \in GraphNativeLanguages /\ FirstBuildNonEmpty) =>
        /\ CountCalls("build_graph") = 1
        /\ CountCalls("create_nodes") <= 1
        /\ CountCalls("create_edges") <= 1
        /\ \A i \in CallsOf("create_edges") :
              \E j \in CallsOf("create_nodes") : j < i /\ calls[j].res = "ok"
        /\ Done =>
              /\ CountCalls("create_nodes") = 1
              /\ \A j \in CallsOf("create_nodes") :
                    calls[j].res = "ok" => CountCalls("create_edges") = 1

\* C7's case: first build non-empty, run ended after one full insert cycle.
C7_Witness ==
    /\ Done
    /\ language = "typescript"
    /\ FirstBuildNonEmpty
    /\ CountCalls("create_nodes") = 1
    /\ CountCalls("create_edges") = 1

\* ================================================ KnowledgeGraphQueryTool
Questions == {"qa", "qb"}
NodeIdFilters == {<<>>, <<"n1">>}

\* raw matches query_vector_index may return: one complete, one lacking
\* start_line, end_line and similarity
RawMatchFull ==
    [node_id |-> "n1", docstring |-> "d1", file_path |-> "f1",
     start_line |-> 3, end_line |-> 7, similarity |-> 1]
RawMatchBare == [node_id |-> "n2", docstring |-> "d2", file_path |-> "f2"]
RawResults == {<<>>, <<RawMatchFull>>, <<RawMatchBare>>}

\* result.get(f) or 0
GetOrZero(m, f) == IF f \in DOMAIN m THEN m[f] ELSE 0
\* result.get(f)
Get(m, f) == IF f \in DOMAIN m THEN m[f] ELSE "None"

\* QueryResponse(...) built from one raw match
QueryResponse(m) ==
    [node_id |-> Get(m, "node_id"),
     docstring |-> Get(m, "docstring"),
     file_path |-> Get(m, "file_path"),
     start_line |-> GetOrZero(m, "start_line"),
     end_line |-> GetOrZero(m, "end_line"),
     similarity |-> GetOrZero(m, "similarity")]

\* the list comprehension process_query returns
Responses(matches) == [k \in DOMAIN matches |-> QueryResponse(matches[k])]

\* `if not project:`
ProjectFoundAlways(p) == TRUE
ProjectFound(p) == p # "None"

\* QueryRequest(query=query, project_id=project_id, node_ids=node_ids)
QueryRequest(i) ==
    [query |-> queries[i], project_id |-> project, node_ids |-> node_ids]

\* what `await asyncio.gather(*tasks)` evaluates to: the tasks' results in the
\* order of the tasks
GatherByCompletion(taskResults, order) ==
    [k \in DOMAIN order |-> taskResults[order[k]]]
Gather(taskResults, order) == taskResults

\* `except Exception` of run: every exception of the asynchronous path
RunCatchesValueErrorOnly(e) == e = "ValueError"
RunCatches(e) == TRUE

IngestIdle ==
    /\ pc = "idle"
    /\ cleanup_graph = FALSE
    /\ extracted_dir = NoDir
    /\ dirExists = FALSE
    /\ removed = FALSE
    /\ language = "none"
    /\ graph = NoGraph
    /\ statusLog = <<>>
    /\ statusFailed = FALSE
    /\ calls = <<>>
    /\ exc = NoExc
    /\ firstExc = NoExc
    /\ outcome = NoOutcome

\* a call of run(queries, repo_id, node_ids) or run_tool(queries, project_id,
\* node_ids)
QueryInit ==
    /\ qpc = "resolve"
    /\ entry \in {"run", "run_tool"}
    /\ queries \in UNION {[1..n -> Questions] : n \in 0..MaxQueries}
    /\ node_ids \in NodeIdFilters
    /\ project = "unresolved"
    /\ resolveCalls = 0
    /\ tasks = <<>>
    /\ raw = <<>>
    /\ engineCalls = <<>>
    /\ completed = <<>>
    /\ results = <<>>
    /\ qoutcome = [kind |-> "none", value |-> <<>>, cause |-> "none"]

QInit == IngestIdle /\ QueryInit

\* ask_knowledge_graph_query, lines 105-113
Resolve ==
    /\ qpc = "resolve"
    /\ resolveCalls' = resolveCalls + 1
    /\ \/ \E p \in {"P1", "None"} :
            /\ project' = p
            /\ IF ProjectFound(p)
               THEN qpc' = "dispatch" /\ UNCHANGED qoutcome
               ELSE /\ qpc' = "raised"
                    /\ qoutcome' = [qoutcome EXCEPT !.cause = "ValueError"]
       \/ /\ qpc' = "raised"
          /\ qoutcome' = [qoutcome EXCEPT !.cause = "ResolveError"]
          /\ UNCHANGED project
    /\ UNCHANGED <<entry, queries, node_ids, tasks, raw, engineCalls, completed,
                   results>>
    /\ UNCHANGED ivars

\* lines 114-118 and 52-72: one request and one process_query task per
\* question, handed to asyncio.gather
Dispatch ==
    /\ qpc = "dispatch"
    /\ tasks' = [i \in DOMAIN queries |-> "pending"]
    /\ raw' = [i \in DOMAIN queries |-> <<>>]
    /\ results' = [i \in DOMAIN queries |-> <<>>]
    /\ qpc' = "gather"
    /\ UNCHANGED <<entry, queries, node_ids, project, resolveCalls, engineCalls,
                   completed, qoutcome>>
    /\ UNCHANGED ivars

\* the event loop that runs the tasks: run's loop lives on after run returned,
\* run_tool's own loop stops with run_until_complete
LoopRuns ==
    \/ qpc = "gather"
    \/ entry = "run" /\ qpc \in {"returned", "raised", "done"}

\* process_query, lines 54-69: it holds no await, so the engine call and the
\* mapping of its matches are one step of the event loop
ProcessQuery ==
    /\ LoopRuns
    /\ \E i \in DOMAIN tasks :
        /\ tasks[i] = "pending"
        /\ \/ \E matches \in RawResults :
                /\ engineCalls' = Append(engineCalls,
                        [task |-> i, request |-> QueryRequest(i), res |-> "ok",
                         ret |-> matches])
                /\ raw' = [raw EXCEPT ![i] = matches]
                /\ results' = [results EXCEPT ![i] = Responses(matches)]
                /\ tasks' = [tasks EXCEPT ![i] = "done"]
                /\ completed' = Append(completed, i)
           \/ /\ engineCalls' = Append(engineCalls,
                        [task |-> i, request |-> QueryRequest(i), res |-> "raise",
                         ret |-> <<>>])
              /\ tasks' = [tasks EXCEPT ![i] = "failed"]
              /\ UNCHANGED <<raw, results, completed>>
    /\ UNCHANGED <<qpc, entry, queries, node_ids, project, resolveCalls, qoutcome>>
    /\ UNCHANGED ivars

\* line 72-74: gather is done when every task returned
GatherReturn ==
    /\ qpc = "gather"
    /\ \A i \in DOMAIN tasks : tasks[i] = "done"
    /\ qoutcome' = [qoutcome EXCEPT !.value = Gather(results, completed)]
    /\ qpc' = "returned"
    /\ UNCHANGED <<entry, queries, node_ids, project, resolveCalls, tasks, raw,
                   engineCalls, completed, results>>
    /\ UNCHANGED ivars

\* (variant) gather hands back what the other tasks returned, as with
\* return_exceptions=True
GatherRaiseReturnsPartial ==
    /\ qpc = "gather"
    /\ \E i \in DOMAIN tasks : tasks[i] = "failed"
    /\ \A i \in DOMAIN tasks : tasks[i] # "pending"
    /\ qoutcome' = [qoutcome EXCEPT !.value = Gather(results, completed)]
    /\ qpc' = "returned"
    /\ UNCHANGED <<entry, queries, node_ids, project, resolveCalls, tasks, raw,
                   engineCalls, completed, results>>
    /\ UNCHANGED ivars
\* line 72: the first exception of a task is raised to the awaiter
GatherRaise ==
    /\ qpc = "gather"
    /\ \E i \in DOMAIN tasks : tasks[i] = "failed"
    /\ qoutcome' = [qoutcome EXCEPT !.cause = "EngineError"]
    /\ qpc' = "raised"
    /\ UNCHANGED <<entry, queries, node_ids, project, resolveCalls, tasks, raw,
                   engineCalls, completed, results>>
    /\ UNCHANGED ivars

\* run, lines 123-128: the result, or {"error": ...} for a caught exception
RunExit ==
    /\ entry = "run"
    /\ \/ /\ qpc = "returned"
          /\ qoutcome' = [qoutcome EXCEPT !.kind = "value"]
       \/ /\ qpc = "raised"
          /\ qoutcome' = [qoutcome EXCEPT
                            !.kind = IF RunCatches(qoutcome.cause) THEN "error"
                                     ELSE "raise"]
    /\ qpc' = "done"
    /\ UNCHANGED <<entry, queries, node_ids, project, resolveCalls, tasks, raw,
                   engineCalls, completed, results>>
    /\ UNCHANGED ivars

\* run_tool, lines 80-86: run_until_complete of ask_knowledge_graph_query
RunToolExit ==
    /\ entry = "run_tool"
    /\ \/ /\ qpc = "returned"
          /\ qoutcome' = [qoutcome EXCEPT !.kind = "value"]
       \/ /\ qpc = "raised"
          /\ qoutcome' = [qoutcome EXCEPT !.kind = "raise"]
    /\ qpc' = "done"
    /\ UNCHANGED <<entry, queries, node_ids, project, resolveCalls, tasks, raw,
                   engineCalls, completed, results>>
    /\ UNCHANGED ivars

QNext ==
    \/ Resolve \/ Dispatch \/ ProcessQuery \/ GatherReturn \/ GatherRaise
    \/ RunExit \/ RunToolExit

QuerySpec == QInit /\ [][QNext]_vars

\* ================================================ properties of one batch
QDone == qpc = "done"
FailedTasks == {i \in DOMAIN tasks : tasks[i] = "failed"}
CallOfTask(i) == {k \in DOMAIN engineCalls : engineCalls[k].task = i}

\* C8: run never raises to its caller: once it is over the caller holds a
\* value, and that value is the error payload whenever the project was not
\* found, the resolution raised or a question's engine call raised before the
\* batch was collected.
C8_RunNeverRaises ==
    entry = "run" =>
        /\ qoutcome.kind # "raise"
        /\ QDone =>
              /\ qoutcome.kind \in {"value", "error"}
              /\ qoutcome.cause # "none" => qoutcome.kind = "error"
              /\ qoutcome.kind = "value" => qoutcome.cause = "none"

\* C8's case: run is over after a question's engine call raised.
C8_Witness ==
    /\ QDone
    /\ entry = "run"
    /\ FailedTasks # {}
    /\ qoutcome.kind = "error"
    /\ qoutcome.cause = "EngineError"

C10_ResolvedOnceFirst ==
    /\ resolveCalls <= 1
    /\ qpc # "resolve" => resolveCalls = 1
    /\ engineCalls # <<>> => resolveCalls = 1 /\ project = "P1"
    /\ \A k \in DOMAIN engineCalls : engineCalls[k].request.project_id = "P1"
    /\ project # "P1" => engineCalls = <<>> /\ tasks = <<>>

\* C10's case: a batch of three questions, all dispatched to the engine after
\* the single resolution.
C10_Witness ==
    /\ QDone
    /\ Len(queries) = 3
    /\ Len(engineCalls) = 3
    /\ resolveCalls = 1

\* what run gives its caller for the outcome the asynchronous path had
AsRunReturns ==
    [qoutcome EXCEPT !.kind = IF qoutcome.cause = "none" THEN "value"
                              ELSE IF RunCatches(qoutcome.cause) THEN "error"
                              ELSE "raise"]

\* C11 (the claim as stated): for the same questions, project reference,
\* node-id filter and collaborator outcomes, run_tool hands its caller what
\* run would: the result list, or the error payload as a value where the
\* asynchronous path failed.
C11_SyncSameAsRun ==
    (QDone /\ entry = "run_tool") => qoutcome = AsRunReturns

CleanupFailed ==
    \E i \in CallsOf("cleanup_graph") : calls[i].res = "raise"

\* C12: cleanupGraph true and the deletion of the project's graph entities
\* failed: no acquisition, language detection, build, build-and-store or
\* insertion call follows, the run raises, and the failure never has the
\* parsing-failure message form; when the handler's status write succeeds it
\* is the internal-server failure raised at the cleanup, in the traceback form.
C12_CleanupFailureFatal ==
    CleanupFailed =>
        /\ cleanup_graph
        /\ \A i \in DOMAIN calls :
              calls[i].op \in {"cleanup_graph", "update_project_status"}
        /\ language = "none" /\ extracted_dir = NoDir
        /\ Done =>
              /\ outcome.kind = "raise"
              /\ outcome.form # "Failed during parsing"
              /\ ~statusFailed =>
                    /\ outcome.cause = Raised("HTTPException", "cleanup_graph")
                    /\ outcome.form = "Traceback"
                    /\ statusLog = <<"ERROR">>

\* C12's case: the run is over after the cleanup of the graph failed.
C12_Witness ==
    /\ Done
    /\ CleanupFailed
    /\ Len(calls) = 2
    /\ outcome.cause = Raised("HTTPException", "cleanup_graph")

InferenceFailed ==
    \E i \in CallsOf("run_inference") : calls[i].res = "raise"
ErrorWriteAttempted ==
    \E i \in CallsOf("update_project_status") : calls[i].arg = "ERROR"

\* C13: graph-native branch, run_inference failed after PARSED was persisted:
\* READY is never persisted, a write of ERROR is made (and is the last status
\* when the status writes succeed), and the enrichment exception never leaves
\* the branch: it reaches neither the handlers of parse_directory nor the
\* caller, and with no further failure the run returns.
C13_EnrichmentFailureCaught ==
    (language \in GraphNativeLanguages /\ InferenceFailed) =>
        /\ Persisted("PARSED")
        /\ ~Persisted("READY")
        /\ pc = "handler" => exc # Raised("Error", "run_inference")
        /\ outcome.cause # Raised("Error", "run_inference")
        /\ pc # "gn_except" => ErrorWriteAttempted
        /\ (Done /\ ~statusFailed) => LastStatus = "ERROR"
        /\ (Done /\ Cardinality(RaisingCalls) = 1) =>
              /\ outcome.kind = "return"
              /\ statusLog = <<"PARSED", "ERROR">>

\* C13's case: a graph-native run whose enrichment failed, over.
C13_Witness ==
    /\ Done
    /\ language = "python"
    /\ InferenceFailed
    /\ Cardinality(RaisingCalls) = 1
    /\ statusLog = <<"PARSED", "ERROR">>

GenericLanguage ==
    language \notin (GraphNativeLanguages \cup {"other", "none"})

\* C14: generic branch: construction and storage is one call, made at most
\* once and exactly once when the service was constructed, and no build or
\* insertion call of the graph-native path is made; when run_inference then
\* fails after PARSED, READY is never persisted, the branch does not return,
\* the run raises (the enrichment exception itself when nothing else fails)
\* and, the status writes succeeding, ERROR is the last status.
C14_GenericEnrichmentPropagates ==
    GenericLanguage =>
        /\ CountCalls("create_and_store_graph") <= 1
        /\ CountCalls("build_graph") = 0
        /\ CountCalls("create_nodes") = 0
        /\ CountCalls("create_edges") = 0
        /\ (Done /\ \A i \in CallsOf("CodeGraphService") : calls[i].res = "ok")
              => CountCalls("create_and_store_graph") = 1
        /\ InferenceFailed =>
              /\ Persisted("PARSED")
              /\ ~Persisted("READY")
              /\ pc # "return"
              /\ Done =>
                    /\ outcome.kind = "raise"
                    /\ ~statusFailed => LastStatus = "ERROR"
                    /\ Cardinality(RaisingCalls) = 1 =>
                          /\ outcome.cause = Raised("Error", "run_inference")
                          /\ statusLog = <<"PARSED", "ERROR">>

\* C14's case: a generic run whose enrichment failed, over, raising that
\* failure.
C14_Witness ==
    /\ Done
    /\ GenericLanguage
    /\ InferenceFailed
    /\ CountCalls("create_and_store_graph") = 1
    /\ outcome.cause = Raised("Error", "run_inference")
    /\ LastStatus = "ERROR"

EventFailed(status) ==
    \E i \in CallsOf("send_event") :
        calls[i].arg = status /\ calls[i].res = "raise"

\* C15 (the claim as stated): a failing lifecycle event, everything else
\* succeeding, does not fail the pipeline: after a failed PARSED event
\* enrichment is still invoked and the run reaches READY and returns; after a
\* failed READY event the last status stays READY and the run returns its
\* success result.
C15_EventFailureHarmless ==
    (Done /\ Cardinality(RaisingCalls) = 1) =>
        /\ EventFailed("Parsed") =>
              /\ CountCalls("run_inference") = 1
              /\ LastStatus = "READY"
              /\ outcome.kind = "return"
        /\ EventFailed("Ready") =>
              /\ LastStatus = "READY"
              /\ outcome.kind = "return"

FirstCall(op, arg) ==
    CHOOSE i \in DOMAIN calls :
        /\ calls[i].op = op /\ calls[i].arg = arg
        /\ \A j \in DOMAIN calls :
              (calls[j].op = op /\ calls[j].arg = arg) => i <= j

\* C16: edge insertion is invoked only after the node insertion of the same
\* build result returned; after a failed node insertion no edge insertion is
\* made; and in a graph-native run PARSED or READY is persisted only after
\* both insertions returned.
C16_NodesThenEdgesThenStatus ==
    /\ \A i \in CallsOf("create_edges") :
          /\ calls[i].n = graph.attempt
          /\ \E j \in CallsOf("create_nodes") :
                j < i /\ calls[j].res = "ok" /\ calls[j].n = calls[i].n
    /\ (\E j \in CallsOf("create_nodes") : calls[j].res = "raise")
          => CountCalls("create_edges") = 0
    /\ (language \in GraphNativeLanguages /\ (Persisted("PARSED") \/ Persisted("READY")))
          => \E j \in CallsOf("create_nodes"), i \in CallsOf("create_edges") :
                /\ calls[j].res = "ok" /\ calls[i].res = "ok"
                /\ j < i
                /\ i < FirstCall("update_project_status", "PARSED")

\* C16's case: a graph-native run that persisted PARSED after inserting the
\* nodes and then the edges of its build result.
C16_Witness ==
    /\ language = "python"
    /\ Persisted("PARSED")
    /\ CountCalls("create_nodes") = 1
    /\ CountCalls("create_edges") = 1
    /\ \A i \in CallsOf("create_edges") : calls[i].res = "ok"

FirstEmptySecondNonEmpty ==
    \E i, j \in CallsOf("build_graph") :
        /\ i < j
        /\ \A k \in CallsOf("build_graph") : i <= k
        /\ calls[i].res = "ok" /\ calls[i].n = 0
        /\ calls[j].res = "ok" /\ calls[j].n > 0

Ops == [i \in DOMAIN calls |-> calls[i].op]
RetrySuccessOps ==
    <<"create_indices", "build_graph", "build_graph", "create_nodes", "create_edges",
      "update_project_status", "send_event", "run_inference", "log_graph_stats",
      "update_project_status", "send_event", "close">>

\* C17: graph-native language, first build empty and second non-empty: build
\* is invoked exactly twice, what is inserted is the second result, nodes and
\* edges at most once each, and with no failure the run goes on exactly as on
\* the success path: nodes, edges, PARSED, enrichment, READY, success result.
C17_RetryThenSuccessPath ==
    (language \in GraphNativeLanguages /\ FirstEmptySecondNonEmpty) =>
        /\ CountCalls("build_graph") = 2
        /\ graph.attempt = 2
        /\ \A k \in CallsOf("build_graph") : calls[k].n > 0 => graph.nodes = calls[k].n
        /\ CountCalls("create_nodes") <= 1
        /\ CountCalls("create_edges") <= 1
        /\ \A k \in CallsOf("create_nodes") \cup CallsOf("create_edges") : calls[k].n = 2
        /\ (Done /\ RaisingCalls = {}) =>
              /\ SubSeq(Ops, Len(Ops) - Len(RetrySuccessOps) + 1, Len(Ops))
                    = RetrySuccessOps
              /\ statusLog = <<"PARSED", "READY">>
              /\ outcome.kind = "return"

\* C17's case: a run that retried the build, inserted the second result and
\* ended READY.
C17_Witness ==
    /\ Done
    /\ FirstEmptySecondNonEmpty
    /\ RaisingCalls = {}
    /\ CountCalls("create_edges") = 1
    /\ LastStatus = "READY"

\* the tasks whose engine call has started and has not yet completed
InFlight == {i \in DOMAIN tasks : CallOfTask(i) # {} /\ tasks[i] = "pending"}

\* C18 (the claim as stated): each request suspends at its call into the
\* engine: the step of the event loop that starts a task's engine call leaves
\* that task in flight, so that another task's call can start meanwhile.
C18_SuspendsAtEngineCall ==
    [][\A i \in DOMAIN tasks :
          (/\ Len(queries) >= 2
           /\ \E k \in DOMAIN engineCalls' :
                k \notin DOMAIN engineCalls /\ engineCalls'[k].task = i)
             => (i \in DOMAIN tasks' /\ tasks'[i] = "pending")]_vars

\* what the code does instead: never is any engine call in flight between
\* two steps of the event loop, let alone two
NoEngineCallInFlight == InFlight = {}

\* C19: when the engine call of some question raised, the caller of run holds
\* the error payload and no result of any question, whichever question failed
\* and whatever the others did.
C19_OneFailureFailsBatch ==
    (entry = "run" /\ QDone /\ FailedTasks # {}) =>
        /\ qoutcome.kind = "error"
        /\ qoutcome.cause = "EngineError"
        /\ qoutcome.value = <<>>

\* C19's case: three questions, the second one's engine call raised, the
\* other two completed, run is over.
C19_Witness ==
    /\ QDone
    /\ entry = "run"
    /\ tasks = <<"done", "failed", "done">>
    /\ qoutcome.kind = "error"

\* C20 (the claim as stated): whenever the run returns the success result,
\* the status writes having succeeded, the last status persisted is READY.
C20_SuccessImpliesReady ==
    (Done /\ outcome.kind = "return" /\ ~statusFailed) => LastStatus = "READY"

====
